---- MODULE Spec2Model ----
(***************************************************************************)
(* Model of scripts/mo/data/sqlite_storage.py: the SQLite-backed store of  *)
(* model records and tags, its schema initialisation and its migration     *)
(* chain with versioned backups.                                           *)
(***************************************************************************)
EXTENDS Integers, Sequences, FiniteSets, TLC

VARIABLES
    tables,     \* names of the tables that exist in the database file
    columns,    \* column names of table Record
    Record,     \* rows of table Record
    Tag,        \* rows of table Tag:    [id, name]
    TagSet,     \* rows of table TagSet: [record_id, tag_id]
    Version,    \* rows of table Version (each row one integer)
    backups,    \* backup files beside the database: [ver, db]
    pc,         \* position of SQLiteStorage.__init__ / _run_migration
    ver,        \* loop variable of _run_migration
    stmt,       \* index of the next statement of the migration being run
    v0,         \* history: the Version rows the database file started with
    b0,         \* history: the backup versions on disk at the start
    applied,    \* history: the migrations applied so far, in order
    runs,       \* history: number of times __init__ has been started
    issued,     \* history: identifiers returned by add_record so far
    ret,        \* the last repository call and what it returned
    calls       \* per thread: the set_tags_for_record call it is running

vars == <<tables, columns, Record, Tag, TagSet, Version, backups, pc, ver,
          stmt, v0, b0, applied, runs, issued, ret, calls>>

storeVars == <<Record, Tag, TagSet, issued, ret, calls>>
fileVars == <<tables, columns, Version, backups, pc, ver, stmt, v0, b0, applied,
             runs>>

\* ------------------------------------------------------------------ bounds
MaxRuns == 2        \* constructions of SQLiteStorage on the same file
MaxId == 2          \* largest Record rowid handed out
MaxTagId == 2       \* largest Tag rowid handed out
MaxLen == 2         \* longest tag_list passed to set_tags_for_record
MaxGroups == 2      \* longest groups list of a Record passed in

\* --------------------------------------------------------------- constants
_DB_VERSION == 8

\* ret before any repository call.  op: the call; ok: FALSE when it raised;
\* id: the identifier passed or returned; arg: the tag name(s) passed;
\* rec: the Record passed; created, gc: names of the Tag rows the call
\* inserted and of those its orphan clean-up deleted.
NoRet == [op |-> "none", ok |-> TRUE, id |-> 0, arg |-> <<>>, rec |-> <<>>,
          created |-> {}, gc |-> {}]

\* The threads that call the store, each on its own connection.
Threads == {1, 2}

\* A thread that is not inside set_tags_for_record.  pc: its position;
\* wanted: the lower-cased names asked for; todo: new_tags still to add, in
\* iteration order; existing_tags; tag_name_to_id: the [name, id] pairs
\* collected so far; created: the pairs its add_tag calls returned.
IdleCall == [pc |-> "idle", wanted |-> {}, todo |-> <<>>, existing_tags |-> {},
             tag_name_to_id |-> {}, created |-> {}]

NoCalls == [t \in Threads |-> IdleCall]

\* ------------------------------------------------------------------ schema
\* CREATE TABLE IF NOT EXISTS Record (...)
RecordColumns ==
    {"id", "name", "model_type", "download_url", "url", "download_path",
     "download_filename", "preview_url", "description", "positive_prompts",
     "negative_prompts", "sha256_hash", "md5_hash", "created_at", "groups",
     "subdir", "location", "weight", "backup_url"}

AllTables == {"Record", "Tag", "TagSet", "Version"}

\* The statements of _migrate_<v>_to_<v+1>, before the Version rewrite.
MigrationStatements(v) ==
    CASE v = 1 -> <<[op |-> "add", col |-> "created_at"]>>
      [] v = 2 -> <<[op |-> "add", col |-> "groups"]>>
      [] v = 3 -> <<[op |-> "rename", col |-> "model_hash", to |-> "sha256_hash"],
                    [op |-> "add", col |-> "subdir"]>>
      [] v = 4 -> <<[op |-> "add", col |-> "location"]>>
      [] v = 5 -> <<[op |-> "add", col |-> "weight"]>>
      [] v = 6 -> <<[op |-> "add", col |-> "backup_url"]>>
      [] v = 7 -> <<[op |-> "create", tab |-> "Tag"],
                    [op |-> "create", tab |-> "TagSet"],
                    [op |-> "rename", col |-> "_name", to |-> "name"]>>

\* migration_map of _run_migration: the versions that have a migration.
migration_map == 1..7

\* One ALTER TABLE / CREATE TABLE IF NOT EXISTS statement on the schema
\* [tabs, cols, ok]; SQLite rejects a duplicate or a missing column.
ExecStatement(s, st) ==
    IF ~st.ok THEN st
    ELSE CASE st.ok /\ s.op = "add" ->
                IF s.col \in st.cols THEN [st EXCEPT !.ok = FALSE]
                ELSE [st EXCEPT !.cols = @ \cup {s.col}]
           [] st.ok /\ s.op = "rename" ->
                IF s.col \notin st.cols \/ s.to \in st.cols
                THEN [st EXCEPT !.ok = FALSE]
                ELSE [st EXCEPT !.cols = (@ \ {s.col}) \cup {s.to}]
           [] st.ok /\ s.op = "create" ->
                [st EXCEPT !.tabs = @ \cup {s.tab}]

RECURSIVE ExecAll(_, _, _)
ExecAll(stmts, i, st) ==
    IF i > Len(stmts) THEN st
    ELSE ExecAll(stmts, i + 1, ExecStatement(stmts[i], st))

\* The inverse of one statement, to derive the Record columns a database of
\* an earlier version has from the columns the migrations lead to.
UndoStatement(s, cols) ==
    CASE s.op = "add" -> cols \ {s.col}
      [] s.op = "rename" -> (cols \ {s.to}) \cup {s.col}
      [] s.op = "create" -> cols

RECURSIVE UndoAll(_, _, _)
UndoAll(stmts, i, cols) ==
    IF i < 1 THEN cols
    ELSE UndoAll(stmts, i - 1, UndoStatement(stmts[i], cols))

\* Record columns of a database file whose recorded version is v.
RECURSIVE ColumnsAt(_)
ColumnsAt(v) ==
    IF v >= _DB_VERSION THEN RecordColumns
    ELSE IF v < 1 THEN ColumnsAt(1)
    ELSE UndoAll(MigrationStatements(v), Len(MigrationStatements(v)), ColumnsAt(v + 1))

\* Tables of a database file whose recorded version is v: Tag and TagSet
\* arrive with version 8.
TablesAt(v) == IF v >= _DB_VERSION THEN AllTables ELSE {"Record", "Version"}

\* The content of the database file, as shutil.copy sees it.
DbFile == [tables |-> tables, columns |-> columns, Version |-> Version]

\* ------------------------------------------- initialisation and migration
\* Backup versions that may lie beside the database before the program runs.
StaleBackups == {0, 3}
StaleDb == [tables |-> {}, columns |-> {}, Version |-> {}]

\* Recorded versions of the database files the program is started on.
InitVersions == 0..9

\* SQLiteStorage.__init__ is about to run on a database file that is new, or
\* that an earlier release left at some recorded version.
MigInit ==
    /\ \/ /\ tables = {} /\ columns = {} /\ Version = {}
       \/ \E v \in InitVersions :
            /\ tables = TablesAt(v)
            /\ columns = ColumnsAt(v)
            /\ Version = {v}
    /\ \E b \in SUBSET StaleBackups :
            /\ b0 = b
            /\ backups = {[ver |-> x, db |-> StaleDb] : x \in b}
    /\ Record = {} /\ Tag = {} /\ TagSet = {}
    /\ pc = "initialize" /\ ver = 0 /\ stmt = 1
    /\ v0 = Version
    /\ applied = <<>>
    /\ runs = 1
    /\ issued = {}
    /\ ret = NoRet
    /\ calls = NoCalls

\* _initialize: CREATE TABLE IF NOT EXISTS for the four tables, commit.
_initialize ==
    /\ pc = "initialize"
    /\ tables' = AllTables
    /\ columns' = IF "Record" \in tables THEN columns ELSE RecordColumns
    /\ pc' = "check_version"
    /\ UNCHANGED <<Version, backups, ver, stmt, v0, b0, applied, runs>>
    /\ UNCHANGED storeVars

\* _check_database_version: insert the current version when the table is
\* empty, start the chain when the recorded version differs from it.
_check_database_version ==
    /\ pc = "check_version"
    /\ \/ /\ Version = {}
          /\ Version' = {_DB_VERSION}
          /\ pc' = "done"
          /\ ver' = ver
       \/ \E row \in Version :
          /\ Version' = Version
          /\ IF row # _DB_VERSION
             THEN pc' = "loop" /\ ver' = row
             ELSE pc' = "done" /\ ver' = ver
    /\ UNCHANGED <<tables, columns, backups, stmt, v0, b0, applied, runs>>
    /\ UNCHANGED storeVars

\* for ver in range(current_version, _DB_VERSION)
_run_migration ==
    /\ pc = "loop"
    /\ pc' = IF ver < _DB_VERSION THEN "backup_remove" ELSE "done"
    /\ UNCHANGED <<tables, columns, Version, backups, ver, stmt, v0, b0, applied, runs>>
    /\ UNCHANGED storeVars

BackupRemoveNothing ==
    /\ pc = "backup_remove"
    /\ pc' = "backup_copy"
    /\ UNCHANGED <<tables, columns, Version, backups, ver, stmt, v0, b0, applied, runs>>
    /\ UNCHANGED storeVars

\* _backup_database, first half: os.remove of the previous version's backup.
_backup_database_remove ==
    /\ pc = "backup_remove"
    /\ backups' = IF ver > 1 THEN {b \in backups : b.ver # ver - 1} ELSE backups
    /\ pc' = "backup_copy"
    /\ UNCHANGED <<tables, columns, Version, ver, stmt, v0, b0, applied, runs>>
    /\ UNCHANGED storeVars

BackupCopySkipped ==
    /\ pc = "backup_copy"
    /\ pc' = "lookup"
    /\ UNCHANGED <<tables, columns, Version, backups, ver, stmt, v0, b0, applied, runs>>
    /\ UNCHANGED storeVars
\* _backup_database, second half: shutil.copy of the database file.
_backup_database_copy ==
    /\ pc = "backup_copy"
    /\ backups' = {b \in backups : b.ver # ver} \cup {[ver |-> ver, db |-> DbFile]}
    /\ pc' = "lookup"
    /\ UNCHANGED <<tables, columns, Version, ver, stmt, v0, b0, applied, runs>>
    /\ UNCHANGED storeVars

MigrationMissingContinue ==
    /\ pc = "lookup"
    /\ ver \notin migration_map
    /\ pc' = "loop"
    /\ ver' = ver + 1
    /\ UNCHANGED <<tables, columns, Version, backups, stmt, v0, b0, applied, runs>>
    /\ UNCHANGED storeVars

\* migration_map.get(ver) is None: raise.
MigrationMissing ==
    /\ pc = "lookup"
    /\ ver \notin migration_map
    /\ pc' = "failed"
    /\ UNCHANGED <<tables, columns, Version, backups, ver, stmt, v0, b0, applied, runs>>
    /\ UNCHANGED storeVars

VersionNotWritten(v) == v

\* The row a migration from v leaves in Version.
VersionAfter(v) == v + 1

\* migration(), one ALTER TABLE / CREATE TABLE IF NOT EXISTS statement: the
\* connection opens no transaction for a schema statement, so SQLite commits
\* it on its own when it completes.  A rejected statement raises and leaves
\* the statements before it applied and the Version row as it was.
_migrate_statement ==
    /\ pc = "lookup"
    /\ ver \in migration_map
    /\ stmt <= Len(MigrationStatements(ver))
    /\ LET st == ExecStatement(MigrationStatements(ver)[stmt],
                               [tabs |-> tables, cols |-> columns, ok |-> TRUE])
       IN /\ tables' = st.tabs
          /\ columns' = st.cols
          /\ IF st.ok
             THEN pc' = pc /\ stmt' = stmt + 1
             ELSE pc' = "failed" /\ stmt' = 1
    /\ UNCHANGED <<Version, backups, ver, v0, b0, applied, runs>>
    /\ UNCHANGED storeVars

\* migration(), after its schema statements: DELETE FROM Version, INSERT
\* INTO Version, commit, in one transaction.
_migrate_version ==
    /\ pc = "lookup"
    /\ ver \in migration_map
    /\ stmt > Len(MigrationStatements(ver))
    /\ Version' = {VersionAfter(ver)}
    /\ applied' = Append(applied, ver)
    /\ ver' = ver + 1
    /\ stmt' = 1
    /\ pc' = "loop"
    /\ UNCHANGED <<tables, columns, backups, v0, b0, runs>>
    /\ UNCHANGED storeVars

\* The program is started again on the same database file.
Restart ==
    /\ pc \in {"done", "failed", "crashed"}
    /\ runs < MaxRuns
    /\ runs' = runs + 1
    /\ pc' = "initialize"
    /\ UNCHANGED <<tables, columns, Version, backups, ver, stmt, v0, b0, applied>>
    /\ UNCHANGED storeVars

MigNext ==
    \/ _initialize
    \/ _check_database_version
    \/ _run_migration
    \/ _backup_database_remove
    \/ _backup_database_copy
    \/ MigrationMissing
    \/ _migrate_statement
    \/ _migrate_version
    \/ Restart

MigSpec == MigInit /\ [][MigNext]_vars

\* The process dies during or after initialisation: what the steps so far
\* committed stays in the database file and beside it.
Crash ==
    /\ pc \notin {"initialize", "crashed"}
    /\ pc' = "crashed"
    /\ stmt' = 1
    /\ UNCHANGED <<tables, columns, Version, backups, ver, v0, b0, applied, runs>>
    /\ UNCHANGED storeVars

CrashNext ==
    \/ MigNext
    \/ Crash

\* Initialisation and migration with crashes at any step.
CrashSpec == MigInit /\ [][CrashNext]_vars

BackupVersions == {b.ver : b \in backups}

\* The ascending run of versions a, a+1, ..., a+n-1.
Ascending(a, n) == [i \in 1..n |-> a + i - 1]

\* C3: started on a database recorded at a version v in 1..7, the migrations
\* applied are at every moment v, v+1, ... in ascending order without
\* repetition; when initialisation is done, they are exactly v..7, Version
\* holds 8 and the schema is the current one, and a further initialisation
\* adds no migration.
Thm_C3_MigrationMonotonic ==
    \A v \in 1..7 :
        v0 = {v} =>
            /\ applied = Ascending(v, Len(applied))
            /\ pc = "done" =>
                  /\ Version = {_DB_VERSION}
                  /\ applied = Ascending(v, _DB_VERSION - v)
                  /\ columns = RecordColumns
                  /\ tables = AllTables

Wit_C3_MigratedThenRerun ==
    /\ v0 = {1}
    /\ runs = 2
    /\ pc = "done"
    /\ applied = Ascending(1, 7)

\* C4: with no backup file at the start, once a chain of two or more steps
\* is done the only backup file is the one of version 7, the last version
\* migrated from, and it holds the database as recorded at version 7.
Thm_C4_BackupRetention ==
    \A v \in 1..(_DB_VERSION - 2) :
        (v0 = {v} /\ b0 = {} /\ pc = "done") =>
            /\ BackupVersions = {_DB_VERSION - 1}
            /\ \A b \in backups : b.db.Version = {_DB_VERSION - 1}

Wit_C4_TwoStepChainDone ==
    /\ v0 = {_DB_VERSION - 2}
    /\ b0 = {}
    /\ pc = "done"
    /\ applied = <<_DB_VERSION - 2, _DB_VERSION - 1>>
    /\ BackupVersions = {_DB_VERSION - 1}

\* C8: initialisation fails exactly at a version that has no migration; the
\* Version row is then that version, only migrations from lower versions
\* were applied, and a database that starts below the first migration never
\* gets any migration applied nor reaches the end of initialisation.
Thm_C8_FailFastOnMissingStep ==
    /\ pc = "failed" =>
          /\ ver \notin migration_map
          /\ ver < _DB_VERSION
          /\ Version = {ver}
          /\ \A i \in 1..Len(applied) : applied[i] < ver
    /\ (\E v \in v0 : v < _DB_VERSION /\ v \notin migration_map) =>
          /\ applied = <<>>
          /\ Version = v0
          /\ pc # "done"

Wit_C8_FailedAtMissingStep ==
    /\ v0 = {0}
    /\ pc = "failed"
    /\ ver = 0
    /\ 0 \in BackupVersions

\* C16: in every state a crash leaves on disk during or after
\* initialisation, Version holds exactly one row and the Record columns are
\* those of the recorded version, so a migration's schema statements are
\* never on disk without its Version write.
Cex_C16_CrashConsistency ==
    pc = "crashed" =>
        \E v \in InitVersions \cup {_DB_VERSION} :
            /\ Version = {v}
            /\ columns = ColumnsAt(v)
\* C17: while the migration from a version v runs, from before its first
\* statement until its Version write, a backup file named for v is on disk
\* whose recorded version is v; before the first statement it equals the
\* database file, and when the step comes to write the new version it holds
\* the Record columns of version v.
Thm_C17_BackupBeforeMutate ==
    (pc = "lookup" /\ ver \in migration_map) =>
        \E b \in backups :
            /\ b.ver = ver
            /\ b.db.Version = {ver}
            /\ stmt = 1 => b.db = DbFile
            /\ stmt > Len(MigrationStatements(ver)) => b.db.columns = ColumnsAt(ver)

\* The second step of a chain has run its statement and is about to write
\* its version; the database no longer equals the backup taken before it.
Wit_C17_StepAfterBackup ==
    /\ pc = "lookup" /\ ver = 2
    /\ applied = <<1>>
    /\ stmt > Len(MigrationStatements(ver))
    /\ \E b \in backups : b.ver = 2 /\ b.db.Version = {2} /\ b.db # DbFile
\* C18: once a chain has written its first snapshot (it has applied a
\* step), at every later moment of the chain at least one backup file is on
\* disk: the previous backup is deleted only after the new one is written.
Cex_C18_SnapshotBeforeDiscard ==
    (/\ pc \in {"loop", "backup_remove", "backup_copy", "lookup"}
     /\ runs = 1
     /\ applied # <<>>) => backups # {}
\* ------------------------------------------------------------ repository
\* sqlite3.connect(path, timeout) issues no PRAGMA foreign_keys = ON, so the
\* connection runs with SQLite's default: foreign keys are not enforced and
\* ON DELETE CASCADE does nothing.
foreign_keys == FALSE

\* Tag names callers pass, in the letter case they pass them.
TagNames == {"", "x", "Fantasy", "fantasy"}

\* str.lower() on TagNames.
lower(s) == IF s = "Fantasy" THEN "fantasy" ELSE s

TagNameAsPassed(tag) == tag

\* add_tag: tag = tag.lower(), the name the INSERT stores.
TagNameStored(tag) == lower(tag)

SetMax(S) == CHOOSE m \in S : \A x \in S : x <= m

\* The rowid SQLite gives a new row of an INTEGER PRIMARY KEY table declared
\* without AUTOINCREMENT: one more than the largest rowid now in the table.
NextRowId(rows) == IF rows = {} THEN 1 ELSE SetMax({r.id : r \in rows}) + 1

TagIds(ts) == {a.tag_id : a \in ts}

\* get_all_tags
get_all_tags == {lower(t.name) : t \in {u \in Tag : u.name # ""}}

\* SELECT t.name FROM Tag t JOIN TagSet ts ON t.id = ts.tag_id
\* WHERE ts.record_id = ?, lower-cased, empty names left out.
TagsOf(tags, tagset, record_id) ==
    {lower(t.name) :
        t \in {u \in tags : /\ u.name # ""
                            /\ \E a \in tagset : /\ a.tag_id = u.id
                                                 /\ a.record_id = record_id}}

\* get_tags_for_record
get_tags_for_record(record_id) == TagsOf(Tag, TagSet, record_id)

\* ON DELETE CASCADE of TagSet.record_id, when foreign keys are enforced.
CascadeRecord(ts, id_) ==
    IF foreign_keys THEN {a \in ts : a.record_id # id_} ELSE ts

\* ON DELETE CASCADE of TagSet.tag_id, when foreign keys are enforced.
CascadeTags(ts, ids) ==
    IF foreign_keys THEN {a \in ts : a.tag_id \notin ids} ELSE ts

\* remove_record
remove_record(id_) ==
    /\ pc = "done"
    /\ Record' = {r \in Record : r.id # id_}
    /\ TagSet' = CascadeRecord(TagSet, id_)
    /\ ret' = [NoRet EXCEPT !.op = "remove_record", !.id = id_]
    /\ UNCHANGED <<Tag, issued, calls>>
    /\ UNCHANGED fileVars

\* add_tag: INSERT INTO Tag(name) of the lower-cased name; the UNIQUE
\* constraint on Tag.name rejects a name that is already there.
add_tag(tag) ==
    /\ pc = "done"
    /\ LET name == TagNameStored(tag)
       IN IF \E t \in Tag : t.name = name
          THEN /\ ret' = [NoRet EXCEPT !.op = "add_tag", !.ok = FALSE, !.arg = <<tag>>]
               /\ Tag' = Tag
          ELSE /\ NextRowId(Tag) <= MaxTagId
               /\ Tag' = Tag \cup {[id |-> NextRowId(Tag), name |-> name]}
               /\ ret' = [NoRet EXCEPT !.op = "add_tag", !.id = NextRowId(Tag),
                                       !.arg = <<tag>>, !.created = {name}]
    /\ UNCHANGED <<Record, TagSet, issued, calls>>
    /\ UNCHANGED fileVars

\* remove_tag(tag_name, tag_id): by id when one is given (0 stands for
\* None), else by lower-cased name; an empty name becomes None and the
\* DELETE ... WHERE name = NULL matches no row.
remove_tag(tag_name, tag_id) ==
    /\ pc = "done"
    /\ LET gone == IF tag_id = 0
                   THEN {t \in Tag : tag_name # "" /\ t.name = lower(tag_name)}
                   ELSE {t \in Tag : t.id = tag_id}
       IN /\ Tag' = Tag \ gone
          /\ TagSet' = CascadeTags(TagSet, {t.id : t \in gone})
    /\ ret' = [NoRet EXCEPT !.op = "remove_tag", !.id = tag_id, !.arg = <<tag_name>>]
    /\ UNCHANGED <<Record, issued, calls>>
    /\ UNCHANGED fileVars

\* The orders in which Python may iterate over the set S.
Orders(S) ==
    {f \in [1..Cardinality(S) -> S] : \A i, j \in 1..Cardinality(S) : f[i] = f[j] => i = j}

AddedRowsNone(order) == {}
\* The Tag rows that consecutive add_tag calls insert for the names of order.
AddedRows(order) ==
    {[id |-> NextRowId(Tag) + i - 1, name |-> TagNameStored(order[i])] :
        i \in 1..Len(order)}

\* tag_list = [t.lower() for t in tag_list if t], as a set
WantedTags(tag_list) ==
    {lower(tag_list[i]) : i \in {j \in 1..Len(tag_list) : tag_list[j] # ""}}

TagSetNotCleared(ts, record_id) == ts

\* DELETE FROM TagSet WHERE record_id = ?
TagSetWithout(ts, record_id) == {a \in ts : a.record_id # record_id}

NoOrphanTags(tags, ts) == {}

\* The rows of DELETE FROM Tag WHERE id NOT IN (SELECT DISTINCT tag_id FROM TagSet)
OrphanTags(tags, ts) == {t \in tags : t.id \notin TagIds(ts)}

\* set_tags_for_record.  add_tag is called for every wanted name the record
\* does not have, in the iteration order of a Python set, and each call
\* commits; the first name that is already in Tag raises out of the call.
\* Otherwise the record's associations are replaced and committed, then the
\* orphaned Tag rows are deleted and that is committed.
set_tags_for_record(record_id, tag_list) ==
    /\ pc = "done"
    /\ LET wanted == WantedTags(tag_list)
           current_tags_names == get_tags_for_record(record_id)
           new_tags == wanted \ current_tags_names
           existing_tags == wanted \cap current_tags_names
           clash == {n \in new_tags : \E t \in Tag : t.name = n}
           call == [NoRet EXCEPT !.op = "set_tags_for_record", !.id = record_id,
                                 !.arg = tag_list]
       IN IF clash # {}
          THEN \E done \in SUBSET (new_tags \ clash) : \E order \in Orders(done) :
                 /\ NextRowId(Tag) + Len(order) - 1 <= MaxTagId
                 /\ Tag' = Tag \cup AddedRows(order)
                 /\ TagSet' = TagSet
                 /\ ret' = [call EXCEPT !.ok = FALSE, !.created = done]
          ELSE \E order \in Orders(new_tags) :
                 LET tags1 == Tag \cup AddedRows(order)
                     tag_name_to_id ==
                         AddedRows(order) \cup {t \in Tag : t.name \in existing_tags}
                     tagset1 ==
                         TagSetWithout(TagSet, record_id) \cup
                         {[record_id |-> record_id, tag_id |-> t.id] : t \in tag_name_to_id}
                     orphans == OrphanTags(tags1, tagset1)
                 IN /\ NextRowId(Tag) + Len(order) - 1 <= MaxTagId
                    /\ TagSet' = tagset1
                    /\ Tag' = tags1 \ orphans
                    /\ ret' = [call EXCEPT !.created = new_tags,
                                           !.gc = {t.name : t \in orphans}]
    /\ UNCHANGED <<Record, issued, calls>>
    /\ UNCHANGED fileVars

\* ------------------------------------------------------ rows and Records
\* Texts that are split or joined are sequences of characters; the others
\* are strings.  A Record's model_type is a ModelType member [value |-> v].

\* ",".join(groups)
RECURSIVE join(_)
join(groups) ==
    IF groups = <<>> THEN <<>>
    ELSE IF Len(groups) = 1 THEN groups[1]
    ELSE groups[1] \o <<",">> \o join(Tail(groups))

\* text.split(','): the pieces between the commas, at least one piece.
RECURSIVE split(_)
split(text) ==
    IF text = <<>> THEN << <<>> >>
    ELSE IF Head(text) = "," THEN << <<>> >> \o split(Tail(text))
    ELSE LET rest == split(Tail(text))
         IN << <<Head(text)>> \o Head(rest) >> \o Tail(rest)

\* SQL NULL / Python None, per kind of column.
NullText == "NULL"
NullInt == 0 - 1
NullChars == <<"NULL">>

\* ModelType.by_value
ModelType_by_value(v) == [value |-> v]

\* The tag list of a Record built without one, as map_row_to_record does.
RecordDefaultTags == <<>>

\* The data tuple of add_record, with the rowid the INSERT assigns; the
\* Record's tag list is not part of it.
RowOf(record, id_) ==
    [id |-> id_,
     name |-> record.name,
     model_type |-> record.model_type.value,
     download_url |-> record.download_url,
     url |-> record.url,
     download_path |-> record.download_path,
     download_filename |-> record.download_filename,
     preview_url |-> record.preview_url,
     description |-> record.description,
     positive_prompts |-> record.positive_prompts,
     negative_prompts |-> record.negative_prompts,
     sha256_hash |-> record.sha256_hash,
     md5_hash |-> record.md5_hash,
     created_at |-> record.created_at,
     groups |-> join(record.groups),
     subdir |-> record.subdir,
     location |-> record.location,
     weight |-> record.weight,
     backup_url |-> record.backup_url]

\* map_row_to_record
map_row_to_record(row) ==
    [id_ |-> row.id,
     name |-> row.name,
     model_type |-> ModelType_by_value(row.model_type),
     download_url |-> row.download_url,
     url |-> row.url,
     download_path |-> row.download_path,
     download_filename |-> row.download_filename,
     preview_url |-> row.preview_url,
     description |-> row.description,
     positive_prompts |-> row.positive_prompts,
     negative_prompts |-> row.negative_prompts,
     sha256_hash |-> row.sha256_hash,
     md5_hash |-> row.md5_hash,
     created_at |-> row.created_at,
     groups |-> IF row.groups # <<>> /\ row.groups # NullChars
                THEN split(row.groups) ELSE <<>>,
     subdir |-> row.subdir,
     location |-> row.location,
     weight |-> row.weight,
     backup_url |-> row.backup_url,
     tags |-> RecordDefaultTags]

\* The one row an aggregate SELECT without GROUP BY returns when no Record
\* row matches: every column NULL.
NullRow ==
    [id |-> NullInt, name |-> NullText, model_type |-> NullText,
     download_url |-> NullText, url |-> NullText, download_path |-> NullText,
     download_filename |-> NullText, preview_url |-> NullText,
     description |-> NullText, positive_prompts |-> NullText,
     negative_prompts |-> NullText, sha256_hash |-> NullText,
     md5_hash |-> NullText, created_at |-> NullInt, groups |-> NullChars,
     subdir |-> NullText, location |-> NullText, weight |-> NullInt,
     backup_url |-> NullText]

\* Python's None, as get_record_by_id returns it for "row is None".
None == [none |-> TRUE]

\* GROUP_CONCAT(t.name, ',') over the Tag rows joined to a record: the names
\* it concatenates (their order is the engine's choice).
GroupConcatNames(id_) ==
    {t.name : t \in {u \in Tag : \E a \in TagSet : /\ a.tag_id = u.id
                                                   /\ a.record_id = id_}}

\* One result row of SELECT r.*, GROUP_CONCAT(t.name, ',') AS tags: the
\* Record columns and the aggregated tags as a last column.
SelectRow(r) == r @@ ("tags" :> GroupConcatNames(r.id))

\* The result of the SELECT of get_record_by_id.  It has an aggregate and
\* no GROUP BY, so it yields exactly one row: when no Record row matches
\* r.id = ?, the row whose columns are all NULL.
SelectById(id_) ==
    LET matching == {r \in Record : r.id = id_}
    IN IF matching = {} THEN {NullRow @@ ("tags" :> {})}
       ELSE {SelectRow(r) : r \in matching}

\* get_record_by_id: None if fetchone() is None, else the mapped row.
get_record_by_id(id_) ==
    LET rows == SelectById(id_)
    IN IF rows = {} THEN None
       ELSE map_row_to_record(CHOOSE row \in rows : TRUE)

\* add_record: INSERT of every column but id, commit, return lastrowid.
add_record(record) ==
    /\ pc = "done"
    /\ NextRowId(Record) <= MaxId
    /\ Record' = Record \cup {RowOf(record, NextRowId(Record))}
    /\ issued' = issued \cup {NextRowId(Record)}
    /\ ret' = [NoRet EXCEPT !.op = "add_record", !.id = NextRowId(Record),
                            !.rec = record]
    /\ UNCHANGED <<Tag, TagSet, calls>>
    /\ UNCHANGED fileVars

\* update_record: UPDATE Record SET <every column but id and created_at>
\* WHERE id = record.id_; no row matches an unknown identifier.
update_record(record) ==
    /\ pc = "done"
    /\ Record' = {IF r.id = record.id_
                  THEN [RowOf(record, r.id) EXCEPT !.created_at = r.created_at]
                  ELSE r : r \in Record}
    /\ ret' = [NoRet EXCEPT !.op = "update_record", !.id = record.id_,
                            !.rec = record]
    /\ UNCHANGED <<Tag, TagSet, issued, calls>>
    /\ UNCHANGED fileVars

\* ------------------------------------------------------- specifications
\* The store after __init__ on a new database file.
StoreInit ==
    /\ tables = AllTables
    /\ columns = RecordColumns
    /\ Version = {_DB_VERSION}
    /\ backups = {}
    /\ pc = "done" /\ ver = 0 /\ stmt = 1
    /\ v0 = {} /\ b0 = {} /\ applied = <<>> /\ runs = 1
    /\ Record = {} /\ Tag = {} /\ TagSet = {}
    /\ issued = {}
    /\ ret = NoRet
    /\ calls = NoCalls

\* A Record with every text empty and a zero timestamp, and one with every
\* field set.
EmptyRecord ==
    [id_ |-> NullInt, name |-> "", model_type |-> ModelType_by_value("Checkpoint"),
     download_url |-> "", url |-> "", download_path |-> "",
     download_filename |-> "", preview_url |-> "", description |-> "",
     positive_prompts |-> "", negative_prompts |-> "", sha256_hash |-> "",
     md5_hash |-> "", created_at |-> 0, groups |-> <<>>, subdir |-> "",
     location |-> "", weight |-> 1, backup_url |-> "", tags |-> <<>>]

FullRecord ==
    [id_ |-> NullInt, name |-> "Anime V1", model_type |-> ModelType_by_value("LORA"),
     download_url |-> "https://host/dl", url |-> "https://host/page",
     download_path |-> "/models", download_filename |-> "anime.safetensors",
     preview_url |-> "https://host/img", description |-> "text",
     positive_prompts |-> "good", negative_prompts |-> "bad",
     sha256_hash |-> "ab12", md5_hash |-> "cd34", created_at |-> 7,
     groups |-> <<>>, subdir |-> "sub", location |-> "/models/anime.safetensors",
     weight |-> 2, backup_url |-> "https://mirror/dl", tags |-> <<>>]

\* Group names callers pass: empty, plain, and one holding the delimiter.
GroupStrings == {<<>>, <<"g">>, <<"g", ",", "h">>}

SeqsUpTo(S, n) == UNION {[1..k -> S] : k \in 0..n}

GroupLists == SeqsUpTo(GroupStrings, MaxGroups)

RecordValues ==
    {[b EXCEPT !.groups = g] : b \in {EmptyRecord, FullRecord}, g \in GroupLists}

TagLists == SeqsUpTo(TagNames, MaxLen)

\* Records and tags: the tag repository over records whose fields are fixed.
Next ==
    \/ add_record(FullRecord)
    \/ \E id_ \in 1..MaxId : remove_record(id_)
    \/ \E tag \in TagNames : add_tag(tag)
    \/ \E tag \in TagNames : remove_tag(tag, 0)
    \/ \E tag_id \in 1..MaxTagId : remove_tag("", tag_id)
    \/ \E id_ \in 1..MaxId : \E tag_list \in TagLists : set_tags_for_record(id_, tag_list)

Spec == StoreInit /\ [][Next]_vars

\* Records alone: the record repository over Records of varying content.
RecNext ==
    \/ \E record \in RecordValues : add_record(record)
    \/ \E record \in RecordValues : \E id_ \in 1..MaxId :
            update_record([record EXCEPT !.id_ = id_])
    \/ \E id_ \in 1..MaxId : remove_record(id_)

RecSpec == StoreInit /\ [][RecNext]_vars

\* ------------------------------------------------------ repository claims
RecordIds == {r.id : r \in Record}

TagRowsNamed(name) == {t \in Tag : lower(t.name) = name}

\* C1: whenever set_tags_for_record is called for a stored record with a
\* name that another stored record is tagged with, the call succeeds, Tag
\* then holds exactly one row of that name and both records carry the tag.
Cex_C1_TagReuse ==
    [][\A a \in RecordIds : \A name \in WantedTags(ret'.arg) :
          ( /\ ret'.op = "set_tags_for_record"
            /\ ret'.id \in RecordIds
            /\ a # ret'.id
            /\ name \in get_tags_for_record(a) )
          => /\ ret'.ok
             /\ Cardinality({t \in Tag' : lower(t.name) = name}) = 1
             /\ name \in TagsOf(Tag', TagSet', a)
             /\ name \in TagsOf(Tag', TagSet', ret'.id) ]_vars

Thm_C5_TagNameUnique ==
    /\ \A t, u \in Tag : lower(t.name) = lower(u.name) => t = u
    /\ \A t \in Tag : t.name = lower(t.name)
    /\ \A name \in WantedTags(ret.arg) :
          ( /\ ret.op \in {"set_tags_for_record", "add_tag"}
            /\ \/ ret.ok
               \/ \E id_ \in 1..MaxId : name \in get_tags_for_record(id_) )
          => Cardinality(TagRowsNamed(name)) = 1

Wit_C5_FantasyTwice ==
    /\ ret.op = "set_tags_for_record"
    /\ ret.arg = <<"Fantasy">>
    /\ ret.id = 2
    /\ "fantasy" \in get_tags_for_record(1)
    /\ {1, 2} \subseteq RecordIds
    /\ Tag = {[id |-> 1, name |-> "fantasy"]}

\* C6: after a set_tags_for_record call that returned normally the record's
\* tags are exactly the lower-cased non-empty names of the list passed.
Thm_C6_ReconciliationResult ==
    (ret.op = "set_tags_for_record" /\ ret.ok) =>
        get_tags_for_record(ret.id) =
            {lower(ret.arg[i]) : i \in 1..Len(ret.arg)} \ {""}

\* One tag kept, one dropped and collected, none of the empty names stored.
Wit_C6_KeptDroppedNew ==
    /\ ret.op = "set_tags_for_record"
    /\ ret.ok
    /\ ret.arg = <<"Fantasy", "">>
    /\ ret.created = {}
    /\ ret.gc = {"x"}
    /\ get_tags_for_record(ret.id) = {"fantasy"}

Wit_C6_NewAttached ==
    /\ ret.op = "set_tags_for_record"
    /\ ret.ok
    /\ ret.created = {"x"}
    /\ get_tags_for_record(ret.id) = {"x", "fantasy"}

\* C7: remove_record of a stored record leaves no association of that record
\* and remove_tag leaves no association of a Tag row that is gone.
Cex_C7_CascadeOnDelete ==
    [][ /\ (ret'.op = "remove_record" /\ ret'.id \in RecordIds) =>
              \A a \in TagSet' : a.record_id # ret'.id
        /\ ret'.op = "remove_tag" =>
              \A a \in TagSet' : a.tag_id \in {t.id : t \in Tag} =>
                                 a.tag_id \in {t.id : t \in Tag'} ]_vars

\* C9: add_record returns an identifier larger than every identifier it
\* returned before.
Cex_C9_IdentifierNeverReused ==
    [][ret'.op = "add_record" => \A id_ \in issued : ret'.id > id_]_vars

\* Every field but the identifier.
SameButId(a, b) == [a EXCEPT !.id_ = NullInt] = [b EXCEPT !.id_ = NullInt]

\* C10: right after add_record(r), get_record_by_id of the returned
\* identifier equals r in every field but the identifier.
Cex_C10_RoundTrip ==
    ret.op = "add_record" => SameButId(get_record_by_id(ret.id), ret.rec)

\* C11: get_record_by_id returns None for every identifier that is not
\* stored, and the Record of that identifier for every one that is.
Cex_C11_MissingIdIsAbsent ==
    \A id_ \in 1..MaxId :
        ret.op # "none" =>
        IF id_ \in RecordIds
        THEN get_record_by_id(id_) # None /\ get_record_by_id(id_).id_ = id_
        ELSE get_record_by_id(id_) = None

\* C12: right after update_record(r) for a stored identifier,
\* get_record_by_id of it equals r in every field but the identifier.
Cex_C12_FullRowUpdate ==
    (ret.op = "update_record" /\ ret.id \in RecordIds) =>
        SameButId(get_record_by_id(ret.id), ret.rec)

\* get_all_records: one mapped Record per Record row (left joins, GROUP BY r.id).
get_all_records == {map_row_to_record(SelectRow(r)) : r \in Record}
\* ------------------------------------------------------------ query_records
\* Whether text contains part, letter case ignored, on the texts of the
\* model: the Record names "" and "Anime V1" and the parts asked for.
ContainsIgnoringCase(text, part) ==
    \/ part = ""
    \/ text = "Anime V1" /\ part \in {"anime", "ANIME", "v1", "Anime V1"}

\* Paths that exist on the filesystem.
ExistingPaths == {"/models/anime.safetensors"}

\* os.path.exists
os_path_exists(path) == path \in ExistingPaths

\* The WHERE clause query_records builds.  The name clause is the literal
\* LOWER(r.name) LIKE '%?%': it holds no placeholder and matches the names
\* that contain a question mark.  (None is passed as the empty value.)
QueryWhere(r, name_query, model_types) ==
    /\ name_query # "" => ContainsIgnoringCase(r.name, "?")
    /\ model_types # <<>> => \E i \in 1..Len(model_types) : r.model_type = model_types[i]

\* Placeholders in the query text: one per model type ("r.model_type=?").
\* The name clause has its ? inside a string literal, and each group clause
\* is the text  t.name LIKE %?%  which SQLite cannot parse.
QueryPlaceholders(name_query, groups, model_types) == Len(model_types)

\* params of query_records
QueryParams(name_query, groups, model_types) ==
    (IF name_query # "" THEN 1 ELSE 0) + Len(model_types) + Len(groups)

\* cursor.execute(query, params): sqlite3 raises on a query it cannot parse
\* and on a number of parameters other than the number of placeholders.
QueryExecutes(name_query, groups, model_types) ==
    /\ groups = <<>>
    /\ QueryPlaceholders(name_query, groups, model_types) =
       QueryParams(name_query, groups, model_types)

\* A post-filter that keeps every record.
PostFilterKeepsAll(record, show_downloaded, show_not_downloaded) == TRUE
\* The post-filter of query_records on one mapped record.
PostFilter(record, show_downloaded, show_not_downloaded) ==
    LET is_downloaded == record.location # "" /\ os_path_exists(record.location)
    IN \/ show_downloaded /\ is_downloaded
       \/ show_not_downloaded /\ ~is_downloaded

\* query_records: [ok |-> FALSE] when execute raises, else the Records.
query_records(name_query, groups, model_types, show_downloaded, show_not_downloaded) ==
    IF ~QueryExecutes(name_query, groups, model_types)
    THEN [ok |-> FALSE, records |-> {}]
    ELSE [ok |-> TRUE,
          records |->
            {rec \in {map_row_to_record(SelectRow(r)) :
                        r \in {x \in Record : QueryWhere(x, name_query, model_types)}} :
                PostFilter(rec, show_downloaded, show_not_downloaded)}]

\* Arguments of query_records.
NameQueries == {"", "anime", "ANIME"}
ModelTypeLists == {<<>>, <<"LORA">>, <<"Checkpoint", "LORA">>}
GroupQueries == {<<>>, <<"x">>}

\* C13: with a non-empty name part and non-empty model types query_records
\* returns normally, and returns exactly the stored records whose name
\* contains the part ignoring case and whose model type is among the types;
\* with a non-empty tag-name list it returns normally too.
Cex_C13_QueryComposition ==
    Record # {} =>
      /\ \A name_query \in NameQueries \ {""} : \A model_types \in ModelTypeLists \ {<<>>} :
           LET result == query_records(name_query, <<>>, model_types, TRUE, TRUE)
           IN /\ result.ok
              /\ {rec.id_ : rec \in result.records} =
                 {r.id : r \in {x \in Record :
                    /\ ContainsIgnoringCase(x.name, name_query)
                    /\ \E i \in 1..Len(model_types) : x.model_type = model_types[i]}}
      /\ \A groups \in GroupQueries :
           query_records("", groups, <<>>, TRUE, TRUE).ok

\* A Record whose location is a path that does not exist.
MissingRecord == [FullRecord EXCEPT !.location = "/models/gone.safetensors"]

\* Records that differ in their location.
LocationValues == {EmptyRecord, FullRecord, MissingRecord}

\* Records whose location is empty, an existing path or a missing path.
QryNext ==
    \/ \E record \in LocationValues : add_record(record)
    \/ \E record \in LocationValues : \E id_ \in 1..MaxId :
            update_record([record EXCEPT !.id_ = id_])
    \/ \E id_ \in 1..MaxId : remove_record(id_)

QrySpec == StoreInit /\ [][QryNext]_vars
\* The identifiers query_records returns for the download-state flags alone.
ShownIds(show_downloaded, show_not_downloaded) ==
    {rec.id_ : rec \in query_records("", <<>>, <<>>, show_downloaded,
                                     show_not_downloaded).records}

\* C14 as stated: a record added with an empty location is not returned by
\* query_records(show_downloaded=True) with every other argument at its
\* default (show_not_downloaded=True), and after update_record sets its
\* location to an existing path the same query returns it.
Cex_C14_DownloadStateDefaults ==
    /\ (ret.op = "add_record" /\ ret.rec.location = "") => ret.id \notin ShownIds(TRUE, TRUE)
    /\ (ret.op = "update_record" /\ ret.id \in RecordIds
          /\ os_path_exists(ret.rec.location)) => ret.id \in ShownIds(TRUE, TRUE)

\* C14 amended: a record added with an empty location is not returned by
\* query_records(show_downloaded=True, show_not_downloaded=False), and after
\* update_record sets its location to an existing path that query returns it.
Thm_C14_DownloadState ==
    /\ query_records("", <<>>, <<>>, TRUE, FALSE).ok
    /\ (ret.op = "add_record" /\ ret.rec.location = "") => ret.id \notin ShownIds(TRUE, FALSE)
    /\ (ret.op = "update_record" /\ ret.id \in RecordIds
          /\ os_path_exists(ret.rec.location)) => ret.id \in ShownIds(TRUE, FALSE)

\* A stored record has just been updated to an existing location and the
\* query returns it, while another stored record is left out.
Wit_C14_UpdatedToDownloaded ==
    /\ ret.op = "update_record" /\ ret.id \in RecordIds
    /\ os_path_exists(ret.rec.location)
    /\ ret.id \in ShownIds(TRUE, FALSE)
    /\ \E r \in Record : r.location = "" /\ r.id \notin ShownIds(TRUE, FALSE)
    /\ ShownIds(FALSE, TRUE) # {}

\* The tag names a returned Record carries.
TagsCarried(record) == {record.tags[i] : i \in 1..Len(record.tags)}

\* C15: every Record returned by get_all_records, get_record_by_id and
\* query_records carries the tags get_tags_for_record gives for its
\* identifier, and get_all_records returns the records that have no tags.
Cex_C15_ReadsCarryTags ==
    /\ {rec.id_ : rec \in get_all_records} = RecordIds
    /\ \A rec \in get_all_records : TagsCarried(rec) = get_tags_for_record(rec.id_)
    /\ \A id_ \in RecordIds :
         TagsCarried(get_record_by_id(id_)) = get_tags_for_record(id_)
    /\ \A rec \in query_records("", <<>>, <<>>, TRUE, TRUE).records :
         TagsCarried(rec) = get_tags_for_record(rec.id_)

\* C19: a set_tags_for_record call leaves get_tags_for_record of every other
\* stored record unchanged, and its orphan clean-up deletes no Tag row that
\* has an association when the clean-up runs.
Cex_C19_TagInUseKept ==
    [][(ret'.op = "set_tags_for_record" /\ ret'.id \in RecordIds) =>
        /\ \A other \in RecordIds \ {ret'.id} :
             TagsOf(Tag', TagSet', other) = TagsOf(Tag, TagSet, other)
        /\ \A t \in Tag \ Tag' : t.id \notin TagIds(TagSet')]_vars

\* ------------------------------------- concurrent set_tags_for_record
\* Two threads, each on its own connection (threading.local), each calling
\* set_tags_for_record once for its own record.  A step is one committed
\* statement group or one read of the call.
MaxConcTagId == 4   \* largest Tag rowid handed out while the threads run

\* The record a thread reconciles.
RecordOf(t) == t

\* Tag lists the threads pass.
ConcTagLists == {<<>>, <<"x">>, <<"fantasy">>, <<"x", "fantasy">>}

\* Taggings of the two records before the threads start.
ConcTaggings ==
    {[Tag |-> {}, TagSet |-> {}],
     [Tag |-> {[id |-> 1, name |-> "x"]},
      TagSet |-> {[record_id |-> 1, tag_id |-> 1]}],
     [Tag |-> {[id |-> 1, name |-> "x"], [id |-> 2, name |-> "fantasy"]},
      TagSet |-> {[record_id |-> 1, tag_id |-> 1], [record_id |-> 2, tag_id |-> 2]}]}

\* An initialised store that holds records 1 and 2.
ConcInit ==
    /\ tables = AllTables
    /\ columns = RecordColumns
    /\ Version = {_DB_VERSION}
    /\ backups = {}
    /\ pc = "done" /\ ver = 0 /\ stmt = 1
    /\ v0 = {} /\ b0 = {} /\ applied = <<>> /\ runs = 1
    /\ Record = {RowOf(FullRecord, RecordOf(t)) : t \in Threads}
    /\ \E tagging \in ConcTaggings : Tag = tagging.Tag /\ TagSet = tagging.TagSet
    /\ issued = {RecordOf(t) : t \in Threads}
    /\ ret = NoRet
    /\ calls = NoCalls

\* set_tags_for_record up to the loop over new_tags: lower and filter the
\* list, read the record's current tags, split the wanted names.
CallBegin(t, tag_list) ==
    /\ calls[t].pc = "idle"
    /\ LET wanted == WantedTags(tag_list)
           current_tags_names == get_tags_for_record(RecordOf(t))
       IN \E order \in Orders(wanted \ current_tags_names) :
            calls' = [calls EXCEPT ![t] =
                        [pc |-> "add_tags", wanted |-> wanted, todo |-> order,
                         existing_tags |-> wanted \cap current_tags_names,
                         tag_name_to_id |-> {}, created |-> {}]]
    /\ UNCHANGED <<Record, Tag, TagSet, issued, ret>>
    /\ UNCHANGED fileVars

\* One add_tag of the loop: INSERT INTO Tag(name), commit; the UNIQUE
\* constraint on name raises out of set_tags_for_record.
CallAddTag(t) ==
    /\ calls[t].pc = "add_tags"
    /\ calls[t].todo # <<>>
    /\ LET name == TagNameStored(Head(calls[t].todo))
           row == [id |-> NextRowId(Tag), name |-> name]
       IN IF \E u \in Tag : u.name = name
          THEN /\ calls' = [calls EXCEPT ![t].pc = "raised"]
               /\ Tag' = Tag
          ELSE /\ NextRowId(Tag) <= MaxConcTagId
               /\ Tag' = Tag \cup {row}
               /\ calls' = [calls EXCEPT ![t].todo = Tail(@),
                                         ![t].tag_name_to_id = @ \cup {row},
                                         ![t].created = @ \cup {row}]
    /\ UNCHANGED <<Record, TagSet, issued, ret>>
    /\ UNCHANGED fileVars

\* SELECT id, name FROM Tag WHERE name IN (existing_tags), when there are any.
CallSelectExisting(t) ==
    /\ calls[t].pc = "add_tags"
    /\ calls[t].todo = <<>>
    /\ calls' = [calls EXCEPT ![t].pc = "replace",
                              ![t].tag_name_to_id =
                                   @ \cup {u \in Tag : u.name \in calls[t].existing_tags}]
    /\ UNCHANGED <<Record, Tag, TagSet, issued, ret>>
    /\ UNCHANGED fileVars

\* DELETE FROM TagSet WHERE record_id = ?, one INSERT INTO TagSet per
\* collected tag, commit: one transaction.
CallReplace(t) ==
    /\ calls[t].pc = "replace"
    /\ TagSet' = TagSetWithout(TagSet, RecordOf(t)) \cup
                 {[record_id |-> RecordOf(t), tag_id |-> u.id] : u \in calls[t].tag_name_to_id}
    /\ calls' = [calls EXCEPT ![t].pc = "gc"]
    /\ UNCHANGED <<Record, Tag, issued, ret>>
    /\ UNCHANGED fileVars

\* DELETE FROM Tag WHERE id NOT IN (SELECT DISTINCT tag_id FROM TagSet), commit.
CallGC(t) ==
    /\ calls[t].pc = "gc"
    /\ Tag' = Tag \ OrphanTags(Tag, TagSet)
    /\ calls' = [calls EXCEPT ![t].pc = "returned"]
    /\ UNCHANGED <<Record, TagSet, issued, ret>>
    /\ UNCHANGED fileVars

ConcNext ==
    \E t \in Threads :
        \/ \E tag_list \in ConcTagLists : CallBegin(t, tag_list)
        \/ CallAddTag(t)
        \/ CallSelectExisting(t)
        \/ CallReplace(t)
        \/ CallGC(t)

ConcSpec == ConcInit /\ [][ConcNext]_vars

\* C20: while two threads run set_tags_for_record for two different
\* records, a Tag row a call has created and not yet attached is still in
\* Tag, and once both calls have returned each record's tags are the names
\* its call asked for.
Cex_C20_ConcurrentReconciliation ==
    /\ \A t \in Threads :
         calls[t].pc \in {"add_tags", "replace"} => calls[t].created \subseteq Tag
    /\ (\A t \in Threads : calls[t].pc = "returned") =>
         \A t \in Threads : get_tags_for_record(RecordOf(t)) = calls[t].wanted

\* C21: when set_tags_for_record raises in add_tag, the TagSet rows of its
\* record and of every other record are those from before the call, no
\* Record row and no earlier Tag row changed, and the Tag rows that are new
\* are the ones the call created before the failure, all of them for names
\* it asked for.
Thm_C21_FailedReconciliation ==
    [][(ret'.op = "set_tags_for_record" /\ ~ret'.ok) =>
        /\ TagSet' = TagSet
        /\ Record' = Record
        /\ Tag \subseteq Tag'
        /\ {t.name : t \in Tag' \ Tag} = ret'.created
        /\ ret'.created \subseteq WantedTags(ret'.arg) \ {t.name : t \in Tag}]_vars

\* A call for a stored record has raised after it created a Tag row, while
\* another stored record has an association.
Wit_C21_RaisedAfterCreating ==
    /\ ret.op = "set_tags_for_record" /\ ~ret.ok
    /\ ret.id \in RecordIds
    /\ ret.created # {}
    /\ ret.created \subseteq {t.name : t \in Tag}
    /\ \E a \in TagSet : a.record_id \in RecordIds \ {ret.id}

====
